---- MODULE Spec2Model ----
(***************************************************************************)
(* A model of the medical RAG repository: the text processor of            *)
(* src/preprocessor.py (clean_text, split_into_paragraphs, chunk_paragraphs *)
(* and process_pipeline of MedicalTextProcessor), the vector store of      *)
(* src/vector_store.py (MedicalVectorStore) with the programs that drive   *)
(* it (vector_store.main, rag_pipeline.main and the Streamlit app), and    *)
(* MedicalRAGGenerator.ask of src/generator.py.                            *)
(*                                                                         *)
(* Text is a sequence of one-character strings.  "a" stands for any        *)
(* ordinary character, "." for the sentence terminators [.!?] (the period  *)
(* in clean_text) and " ", "\t", "\n" for the whitespace class \s.          *)
(***************************************************************************)
EXTENDS Integers, Sequences, FiniteSets, TLC

VARIABLES
    \* ---- chunk_paragraphs (src/preprocessor.py:79-176)
    paragraphs,       \* the argument `paragraphs`
    max_chunk_size,   \* the argument `max_chunk_size`
    overlap,          \* the argument `overlap`
    i,                \* loop index of `for i, para in enumerate(paragraphs)`
    chunks,           \* the list `chunks`
    sites,            \* history: the flush site that appended chunks[k]
    current_chunk,    \* the buffer `current_chunk`
    current_length,   \* the counter `current_length`
    chunk_id,         \* the counter `chunk_id`
    cpc,              \* position: "idle", "loop" or "done" (returned)
    \* ---- the Milvus collection "medical_knowledge_v1" (server side)
    collExists,       \* utility.has_collection(name)
    records,          \* the inserted records, in insertion order
    nflushed,         \* num_entities: the records counted after a flush
    loaded,           \* the collection is loaded for search
    \* ---- MedicalVectorStore objects of the running program
    hasCollection,    \* hasattr(store, 'collection'), per store object
    nstores,          \* store objects constructed so far
    last,             \* history: the last call made on a store and what it did
    \* ---- the running program
    prog,             \* "none", "vs_main", "rag_main", "app" or "api"
    pc,               \* its position
    session,          \* st.session_state of the app
    ui,               \* what the last script run of the app rendered
    init_attempt,     \* history: how the most recent initialisation attempt ended
    \* ---- clean_text, split_into_paragraphs, process_pipeline (src/preprocessor.py)
    text,             \* the argument `text` (the corpus text of process_pipeline)
    min_paragraph_length, \* the argument `min_paragraph_length`
    result,           \* history: the call made on the processor and what it returned
    \* ---- MedicalRAGGenerator.ask (src/generator.py:104-147)
    retriever,        \* whether the generator was built with a retriever
    retrieved_chunks, \* what the retriever returned to ask
    asked             \* history: what ask handed to generation and returned

chunkVars == <<paragraphs, max_chunk_size, overlap, i, chunks, sites,
               current_chunk, current_length, chunk_id, cpc>>

storeVars == <<collExists, records, nflushed, loaded, hasCollection, last>>

appVars == <<session, ui, init_attempt>>

textVars == <<text, min_paragraph_length, result>>

askVars == <<retriever, retrieved_chunks, asked>>

\* what the store and the programs that drive it never touch
idleVars == <<chunkVars, textVars, askVars>>

vars == <<chunkVars, storeVars, nstores, prog, pc, appVars, textVars, askVars>>

----------------------------------------------------------------------------
(* Bounds of the chunk builder's inputs. *)

\* total number of characters over all paragraphs of one input list
MaxTotalLen == 6
\* max_chunk_size ranges over 1..MaxSize
MaxSize == 3
\* overlap ranges over 0..MaxOverlap
MaxOverlap == 2

----------------------------------------------------------------------------
(* Text helpers. *)

Alphabet == {"a", ".", " "}

\* the class \s of the regular expressions and of str.strip()
IsSpace(c) == c \in {" ", "\t", "\n"}

\* the class [.!?] of the sentence-splitting regular expression
IsTerminator(c) == c = "."

RECURSIVE LStrip(_)
LStrip(s) == IF s # <<>> /\ IsSpace(Head(s)) THEN LStrip(Tail(s)) ELSE s

RECURSIVE RStrip(_)
RStrip(s) ==
    IF s # <<>> /\ IsSpace(s[Len(s)]) THEN RStrip(SubSeq(s, 1, Len(s) - 1)) ELSE s

\* str.strip()
Strip(s) == RStrip(LStrip(s))

\* a truthy Python string
Truthy(s) == s # <<>>

\* s[-n:] for n > 0
LastChars(s, n) == IF Len(s) > n THEN SubSeq(s, Len(s) - n + 1, Len(s)) ELSE s

\* s.startswith(p)
StartsWith(s, p) == Len(p) <= Len(s) /\ SubSeq(s, 1, Len(p)) = p

RECURSIVE SkipSpaces(_, _)
SkipSpaces(s, p) == IF p <= Len(s) /\ IsSpace(s[p]) THEN SkipSpaces(s, p + 1) ELSE p

RECURSIVE SplitFrom(_, _, _)
SplitFrom(s, p, cur) ==
    IF p > Len(s) THEN <<cur>>
    ELSE IF IsSpace(s[p]) /\ p > 1 /\ IsTerminator(s[p - 1])
         THEN <<cur>> \o SplitFrom(s, SkipSpaces(s, p), <<>>)
         ELSE SplitFrom(s, p + 1, Append(cur, s[p]))

\* re.split(r'(?<=[.!?])\s+', para)
SplitSentences(para) == SplitFrom(para, 1, <<>>)

----------------------------------------------------------------------------
(* The inputs: lists of paragraphs as split_into_paragraphs returns them   *)
(* (stripped, non-empty), of at most MaxTotalLen characters in total.      *)

RECURSIVE StringsOfLen(_)
StringsOfLen(n) ==
    IF n = 0 THEN {<<>>}
    ELSE {Append(s, c) : s \in StringsOfLen(n - 1), c \in Alphabet}

StrippedOfLen(n) == {s \in StringsOfLen(n) : s # <<>> /\ Strip(s) = s}

RECURSIVE ParaLists(_)
ParaLists(n) ==
    {<<>>} \cup
    UNION {{<<p>> \o rest : p \in StrippedOfLen(k), rest \in ParaLists(n - k)} : k \in 1..n}

----------------------------------------------------------------------------
(* chunk_paragraphs *)

\* a plausible slip: the text of a chunk is cut at max_chunk_size
ChunkTruncated(id, buffer, tag) ==
    LET cut == IF Len(Strip(buffer)) > max_chunk_size
               THEN SubSeq(Strip(buffer), 1, max_chunk_size) ELSE Strip(buffer)
    IN [chunk_id |-> id, text |-> cut, length |-> Len(cut), source_paragraphs |-> tag]

\* a plausible slip: the length is taken from the buffer, not from the stripped text
ChunkBufferLength(id, buffer, tag) ==
    [chunk_id |-> id, text |-> Strip(buffer), length |-> Len(buffer),
     source_paragraphs |-> tag]

\* the dict appended at every flush site
Chunk(id, buffer, tag) ==
    [chunk_id |-> id, text |-> Strip(buffer), length |-> Len(Strip(buffer)),
     source_paragraphs |-> tag]

\* `chunk_id += 1`
NextChunkIdStuck(id) == id

NextChunkId(id) == id + 1

\* a plausible slip: a piece is not added to a buffer that already holds text
JoinSpaceKeepsBuffer(buffer, piece) == IF Truthy(buffer) THEN buffer ELSE piece

\* `sub_chunk += " " + sent if sub_chunk else sent`, `current_chunk += " " + para if ...`
JoinSpace(buffer, piece) == IF Truthy(buffer) THEN buffer \o <<" ">> \o piece ELSE piece

\* The sentence loop of a long paragraph (lines 111-126), from sentence k on.
\* st = [sub_chunk, out, sites, chunk_id]
RECURSIVE PackSentences(_, _, _, _, _)
PackSentences(sentences, k, st, idx, size) ==
    IF k > Len(sentences) THEN st
    ELSE LET sent == sentences[k]
             sent_length == Len(sent)
         IN IF Len(st.sub_chunk) + sent_length <= size
            THEN PackSentences(sentences, k + 1,
                     [st EXCEPT !.sub_chunk = JoinSpace(st.sub_chunk, sent)], idx, size)
            ELSE IF Truthy(st.sub_chunk)
                 THEN PackSentences(sentences, k + 1,
                          [sub_chunk |-> sent,
                           out |-> Append(st.out, Chunk(st.chunk_id, st.sub_chunk, <<"part", idx>>)),
                           sites |-> Append(st.sites, "sentence"),
                           chunk_id |-> NextChunkId(st.chunk_id)], idx, size)
                 ELSE PackSentences(sentences, k + 1,
                          [st EXCEPT !.sub_chunk = sent], idx, size)

\* the paragraph the loop is at
Para == paragraphs[i + 1]

\* chunk_paragraphs touches neither the store nor the programs
ChunkFrame == UNCHANGED <<storeVars, nstores, prog, pc, appVars, textVars, askVars>>

InLoop == cpc = "loop" /\ i < Len(paragraphs) /\ ChunkFrame

\* lines 96-130: the paragraph alone is longer than max_chunk_size
ChunkLongParagraph ==
    /\ InLoop
    /\ Len(Para) > max_chunk_size
    /\ LET flush == Truthy(current_chunk)
           st0 == [sub_chunk |-> <<>>,
                   out |-> IF flush
                           THEN Append(chunks, Chunk(chunk_id, current_chunk, <<"para", i>>))
                           ELSE chunks,
                   sites |-> IF flush THEN Append(sites, "long") ELSE sites,
                   chunk_id |-> IF flush THEN NextChunkId(chunk_id) ELSE chunk_id]
           st == PackSentences(SplitSentences(Para), 1, st0, i, max_chunk_size)
       IN /\ chunks' = st.out
          /\ sites' = st.sites
          /\ chunk_id' = st.chunk_id
          /\ current_chunk' = IF Truthy(st.sub_chunk) THEN st.sub_chunk ELSE <<>>
          /\ current_length' = IF Truthy(st.sub_chunk) THEN Len(st.sub_chunk) ELSE 0
    /\ i' = i + 1
    /\ UNCHANGED <<paragraphs, max_chunk_size, overlap, cpc>>

\* lines 133-135: the paragraph joins the buffer
ChunkAppend ==
    /\ InLoop
    /\ Len(Para) <= max_chunk_size
    /\ current_length + Len(Para) <= max_chunk_size
    /\ current_chunk' = JoinSpace(current_chunk, Para)
    /\ current_length' = current_length + Len(Para)
    /\ i' = i + 1
    /\ UNCHANGED <<paragraphs, max_chunk_size, overlap, chunks, sites, chunk_id, cpc>>

\* lines 149-154: the new buffer, seeded with the tail of the old one
SeedBuffer(buffer, para, o) ==
    IF o > 0 /\ Truthy(buffer) THEN LastChars(buffer, o) \o <<" ">> \o para ELSE para

\* lines 138-155: the buffer would overflow
ChunkOverflow ==
    /\ InLoop
    /\ Len(Para) <= max_chunk_size
    /\ current_length + Len(Para) > max_chunk_size
    /\ IF Truthy(current_chunk)
       THEN /\ chunks' = Append(chunks,
                   Chunk(chunk_id, current_chunk, <<"para", IF i > 0 THEN i - 1 ELSE i>>))
            /\ sites' = Append(sites, "overflow")
            /\ chunk_id' = NextChunkId(chunk_id)
       ELSE UNCHANGED <<chunks, sites, chunk_id>>
    /\ current_chunk' = SeedBuffer(current_chunk, Para, overlap)
    /\ current_length' = Len(current_chunk')
    /\ i' = i + 1
    /\ UNCHANGED <<paragraphs, max_chunk_size, overlap, cpc>>

\* lines 158-176: the final flush and the return
ChunkFinal ==
    /\ cpc = "loop"
    /\ ChunkFrame
    /\ i = Len(paragraphs)
    /\ IF Truthy(current_chunk)
       THEN /\ chunks' = Append(chunks, Chunk(chunk_id, current_chunk, <<"final", i>>))
            /\ sites' = Append(sites, "final")
       ELSE UNCHANGED <<chunks, sites>>
    /\ cpc' = "done"
    /\ UNCHANGED <<paragraphs, max_chunk_size, overlap, i, current_chunk,
                   current_length, chunk_id>>

----------------------------------------------------------------------------
(* The vector store: MedicalVectorStore over one Milvus collection.        *)
(* The collection lives on the server and outlives the programs; a store   *)
(* object lives in one program run.  Embeddings are integer vectors of     *)
(* Dimension components and the inner product is computed on them.         *)

\* self.dimension, the encoder's embedding dimension
Dimension == 2

\* chunk ids of the chunk file range over 0..MaxChunkId
MaxChunkId == 1
\* a chunk file holds at most MaxFileLen records
MaxFileLen == 2
\* the collection holds at most MaxRecords records
MaxRecords == 2
\* top_k of a direct call ranges over -1..MaxTopK
MaxTopK == 2
\* store objects constructed in one program run
MaxStores == 2

\* `top_k=4` of MedicalRAGGenerator.ask
AskTopK == 4
\* `top_k=5` of test_with_sample_questions
TestTopK == 5
\* `top_k=4` of the interactive loop of vector_store.main
InteractiveTopK == 4

\* embeddings the encoder produces, for chunks and for queries
EmbSet == {<<1, 0>>, <<1, 1>>}
QuerySet == {<<1, 0>>, <<0, 1>>}
\* an embedding of another encoder's dimension
BadEmbedding == <<1>>

Fields == {"chunk_id", "text", "length", "embedding"}

TextOf(c) == [k \in 1..(c + 1) |-> "a"]

FileChunk(c, e) == [chunk_id |-> c, text |-> TextOf(c), length |-> c + 1, embedding |-> e]

ValidChunks == {FileChunk(c, e) : c \in 0..MaxChunkId, e \in EmbSet}

\* chunk dicts that lack one field, or carry an embedding of the wrong dimension
Without(chunk, f) == [g \in (DOMAIN chunk) \ {f} |-> chunk[g]]

InvalidChunks ==
    {Without(FileChunk(0, <<1, 0>>), f) : f \in Fields} \cup {FileChunk(0, BadEmbedding)}

IsValidChunk(chunk) ==
    /\ DOMAIN chunk = Fields
    /\ Len(chunk.embedding) = Dimension

RECURSIVE SeqsUpTo(_, _)
SeqsUpTo(S, n) ==
    IF n = 0 THEN {<<>>}
    ELSE LET shorter == SeqsUpTo(S, n - 1)
         IN shorter \cup {Append(s, x) : s \in {t \in shorter : Len(t) = n - 1}, x \in S}

\* the contents of the chunk file; NoFile when the path does not exist
NoFile == <<[exists |-> FALSE]>>
\* the chunk file is written from the chunk list of one chunk_paragraphs call,
\* whose chunk ids are all different
DistinctIds(file) ==
    \A a, b \in 1..Len(file) :
        (a # b /\ "chunk_id" \in DOMAIN file[a] /\ "chunk_id" \in DOMAIN file[b])
            => file[a].chunk_id # file[b].chunk_id

ChunkFiles == {file \in SeqsUpTo(ValidChunks \cup InvalidChunks, MaxFileLen) : DistinctIds(file)}

FileIsInvalid(file) == file # NoFile /\ \E k \in 1..Len(file) : ~IsValidChunk(file[k])

Min(a, b) == IF a <= b THEN a ELSE b

Range(f) == {f[x] : x \in DOMAIN f}

RECURSIVE InnerProduct(_, _)
InnerProduct(u, v) ==
    IF u = <<>> \/ v = <<>> THEN 0
    ELSE Head(u) * Head(v) + InnerProduct(Tail(u), Tail(v))

----------------------------------------------------------------------------
(* The index backend (pymilvus.Collection) as the store uses it. *)

\* Collection.is_empty: num_entities == 0, counted over flushed records
IsEmpty == nflushed = 0

\* Collection.insert(entities): the batch is accepted whole or refused whole;
\* a batch without rows is refused
BatchAccepted(entities) ==
    /\ Len(entities[4]) > 0
    /\ Len(entities[1]) = Len(entities[4])
    /\ Len(entities[2]) = Len(entities[4])
    /\ Len(entities[3]) = Len(entities[4])
    /\ \A k \in 1..Len(entities[4]) : Len(entities[4][k]) = Dimension

Rows(entities) ==
    [k \in 1..Len(entities[1]) |->
        [chunk_id |-> entities[1][k], chunk_text |-> entities[2][k],
         text_length |-> entities[3][k], embedding |-> entities[4][k]]]

\* Collection.search refuses an unloaded collection and a limit below 1
SearchRefused(limit) == ~loaded \/ limit < 1

\* The hit lists Collection.search may return for one query vector: the
\* `limit` best of the records the index probed, by descending inner
\* product; the order among equal scores is the backend's.
HitLists(q, limit, probed) ==
    LET n == Min(limit, Cardinality(probed))
        score(x) == InnerProduct(q, records[x].embedding)
    IN {h \in [1..n -> probed] :
            /\ \A a, b \in 1..n : a < b => h[a] # h[b] /\ score(h[a]) >= score(h[b])
            /\ \A x \in probed \ Range(h) : \A a \in 1..n : score(h[a]) >= score(x)}

Hits(q, h) ==
    [a \in 1..Len(h) |-> [entity |-> records[h[a]],
                          score |-> InnerProduct(q, records[h[a]].embedding)]]

----------------------------------------------------------------------------
(* MedicalVectorStore *)

\* what the last call on the store did
NoCall ==
    [op |-> "none", store |-> 0, outcome |-> "none", ret |-> FALSE,
     hasColl |-> FALSE, nRecords |-> 0, nEntities |-> 0, loaded |-> FALSE, exists |-> FALSE,
     invalid |-> FALSE, nChunks |-> 0, faulted |-> FALSE,
     top_k |-> 0, limit |-> 0, exact |-> FALSE,
     calls |-> <<>>, hits |-> <<>>, result |-> <<>>]

\* a call on store s, with the state it found
Call(op, s) ==
    [NoCall EXCEPT !.op = op, !.store = s, !.hasColl = hasCollection[s],
                   !.nRecords = Len(records), !.nEntities = nflushed,
                   !.loaded = loaded, !.exists = collExists]

\* lines 39-64: create_collection; fault names the backend call that raises
CreateCollection(s, fault) ==
    /\ IF fault = "collection"
       THEN /\ last' = [Call("create", s) EXCEPT !.outcome = "raised", !.calls = <<"Collection">>]
            /\ UNCHANGED <<collExists, hasCollection>>
       ELSE /\ collExists' = TRUE
            /\ hasCollection' = [hasCollection EXCEPT ![s] = TRUE]
            /\ last' = [Call("create", s) EXCEPT
                            !.outcome = IF fault = "index" THEN "raised" ELSE "returned",
                            !.calls = <<"Collection", "create_index">>]
    /\ UNCHANGED <<records, nflushed, loaded>>

\* `vector_store.collection = Collection(vector_store.collection_name)`
AttachCollection(s) ==
    /\ IF collExists
       THEN /\ hasCollection' = [hasCollection EXCEPT ![s] = TRUE]
            /\ last' = [Call("attach", s) EXCEPT !.outcome = "returned", !.calls = <<"Collection">>]
       ELSE /\ last' = [Call("attach", s) EXCEPT !.outcome = "raised", !.calls = <<"Collection">>]
            /\ UNCHANGED hasCollection
    /\ UNCHANGED <<collExists, records, nflushed, loaded>>

\* `vector_store.collection.load()`
LoadCollection(s, fault) ==
    /\ hasCollection[s]
    /\ IF fault
       THEN /\ last' = [Call("load", s) EXCEPT !.outcome = "raised", !.calls = <<"load">>]
            /\ UNCHANGED loaded
       ELSE /\ last' = [Call("load", s) EXCEPT !.outcome = "returned", !.calls = <<"load">>]
            /\ loaded' = TRUE
    /\ UNCHANGED <<collExists, records, nflushed, hasCollection>>

\* lines 84-114: the columns built from the chunk file.
\* "keyerror": chunk['chunk_id'], chunk['text'] or chunk['length'] raised;
\* "incomplete": the integrity check of line 104 failed.
RECURSIVE Columns(_, _, _)
Columns(chunks_data, k, cols) ==
    IF k > Len(chunks_data) THEN [status |-> "ok", entities |-> cols]
    ELSE LET chunk == chunks_data[k]
         IN IF ~({"chunk_id", "text", "length"} \subseteq DOMAIN chunk)
            THEN [status |-> "keyerror", entities |-> cols]
            ELSE Columns(chunks_data, k + 1,
                    <<Append(cols[1], chunk.chunk_id),
                      Append(cols[2], chunk.text),
                      Append(cols[3], chunk.length),
                      IF "embedding" \in DOMAIN chunk
                      THEN Append(cols[4], chunk.embedding) ELSE cols[4]>>)

\* a plausible slip: invalid chunks are skipped and the rest is committed
PrepareEntitiesSkipInvalid(chunks_data) ==
    Columns(SelectSeq(chunks_data, IsValidChunk), 1, <<<<>>, <<>>, <<>>, <<>>>>)

PrepareEntities(chunks_data) ==
    LET built == Columns(chunks_data, 1, <<<<>>, <<>>, <<>>, <<>>>>)
    IN IF built.status = "ok" /\ Len(built.entities[4]) # Len(chunks_data)
       THEN [built EXCEPT !.status = "incomplete"]
       ELSE built

\* a plausible slip: a failed load is reported as success
InsertChunksFromFileLoadIgnored(s, file, fault) ==
    LET call == [Call("insert", s) EXCEPT !.outcome = "returned",
                                           !.invalid = FileIsInvalid(file),
                                           !.nChunks = IF file = NoFile THEN 0 - 1 ELSE Len(file)]
        prepared == PrepareEntities(file)
    IN IF file = NoFile \/ prepared.status # "ok"
       THEN \* the file is missing or a chunk is refused
            /\ last' = [call EXCEPT !.ret = FALSE]
            /\ UNCHANGED <<collExists, records, nflushed, loaded, hasCollection>>
       ELSE IF ~hasCollection[s]
       THEN \* no collection object
            /\ last' = [call EXCEPT !.ret = FALSE]
            /\ UNCHANGED <<collExists, records, nflushed, loaded, hasCollection>>
       ELSE IF fault = "insert" \/ ~BatchAccepted(prepared.entities)
       THEN /\ last' = [call EXCEPT !.ret = FALSE, !.calls = <<"insert">>,
                                    !.faulted = (fault = "insert")]
            /\ UNCHANGED <<collExists, records, nflushed, loaded, hasCollection>>
       ELSE /\ records' = records \o Rows(prepared.entities)
            /\ IF fault = "flush"
               THEN /\ last' = [call EXCEPT !.ret = FALSE, !.calls = <<"insert", "flush">>,
                                            !.faulted = TRUE]
                    /\ UNCHANGED <<nflushed, loaded>>
               ELSE /\ nflushed' = Len(records')
                    /\ IF fault = "load"
                       THEN /\ last' = [call EXCEPT !.ret = TRUE, !.faulted = TRUE,
                                                    !.calls = <<"insert", "flush", "load">>]
                            /\ UNCHANGED loaded
                       ELSE /\ last' = [call EXCEPT !.ret = TRUE,
                                                    !.calls = <<"insert", "flush", "load">>]
                            /\ loaded' = TRUE
            /\ UNCHANGED <<collExists, hasCollection>>

\* lines 66-136: insert_chunks_from_file; fault names the backend call that raises
InsertChunksFromFile(s, file, fault) ==
    LET call == [Call("insert", s) EXCEPT !.outcome = "returned",
                                           !.invalid = FileIsInvalid(file),
                                           !.nChunks = IF file = NoFile THEN 0 - 1 ELSE Len(file)]
        prepared == PrepareEntities(file)
    IN IF file = NoFile \/ prepared.status # "ok"
       THEN \* lines 72-75, 104-106, and the KeyError caught at line 132
            /\ last' = [call EXCEPT !.ret = FALSE]
            /\ UNCHANGED <<collExists, records, nflushed, loaded, hasCollection>>
       ELSE IF ~hasCollection[s]
       THEN \* self.collection raises AttributeError, caught at line 132
            /\ last' = [call EXCEPT !.ret = FALSE]
            /\ UNCHANGED <<collExists, records, nflushed, loaded, hasCollection>>
       ELSE IF fault = "insert" \/ ~BatchAccepted(prepared.entities)
       THEN /\ last' = [call EXCEPT !.ret = FALSE, !.calls = <<"insert">>,
                                    !.faulted = (fault = "insert")]
            /\ UNCHANGED <<collExists, records, nflushed, loaded, hasCollection>>
       ELSE /\ records' = records \o Rows(prepared.entities)
            /\ IF fault = "flush"
               THEN /\ last' = [call EXCEPT !.ret = FALSE, !.calls = <<"insert", "flush">>,
                                            !.faulted = TRUE]
                    /\ UNCHANGED <<nflushed, loaded>>
               ELSE /\ nflushed' = Len(records')
                    /\ IF fault = "load"
                       THEN /\ last' = [call EXCEPT !.ret = FALSE, !.faulted = TRUE,
                                                    !.calls = <<"insert", "flush", "load">>]
                            /\ UNCHANGED loaded
                       ELSE /\ last' = [call EXCEPT !.ret = TRUE,
                                                    !.calls = <<"insert", "flush", "load">>]
                            /\ loaded' = TRUE
            /\ UNCHANGED <<collExists, hasCollection>>

\* line 145: the early return of search_similar_chunks
SearchGuardNever(s) == FALSE

SearchGuard(s) == ~hasCollection[s] \/ IsEmpty

\* line 164: `limit=top_k`
SearchLimitCoerced(top_k) == IF top_k < 1 THEN 1 ELSE top_k

SearchLimitOneMore(top_k) == top_k + 1

SearchLimit(top_k) == top_k

\* a plausible slip: the distance is computed as score - 1
FormatHitsDistanceNegated(hits) ==
    [a \in 1..Len(hits) |->
        [chunk_id |-> hits[a].entity.chunk_id,
         text |-> hits[a].entity.chunk_text,
         length |-> hits[a].entity.text_length,
         similarity_score |-> hits[a].score,
         distance |-> hits[a].score - 1]]

\* lines 169-180: the formatted results, one per hit, in hit order
FormatHits(hits) ==
    [a \in 1..Len(hits) |->
        [chunk_id |-> hits[a].entity.chunk_id,
         text |-> hits[a].entity.chunk_text,
         length |-> hits[a].entity.text_length,
         similarity_score |-> hits[a].score,
         distance |-> 1 - hits[a].score]]

\* lines 138-182: search_similar_chunks
SearchSimilarChunks(s, q, top_k) ==
    LET call == [Call("search", s) EXCEPT !.top_k = top_k]
    IN /\ IF SearchGuard(s)
          THEN last' = [call EXCEPT !.outcome = "returned"]
          ELSE IF SearchRefused(SearchLimit(top_k))
          THEN last' = [call EXCEPT !.outcome = "raised", !.calls = <<"search">>,
                                    !.limit = SearchLimit(top_k)]
          ELSE \E probed \in SUBSET (1..Len(records)) :
                 \E h \in HitLists(q, SearchLimit(top_k), probed) :
                    last' = [call EXCEPT !.outcome = "returned", !.calls = <<"search">>,
                                         !.limit = SearchLimit(top_k),
                                         !.exact = (probed = 1..Len(records)),
                                         !.hits = Hits(q, h),
                                         !.result = FormatHits(Hits(q, h))]
       /\ UNCHANGED <<collExists, records, nflushed, loaded, hasCollection>>

----------------------------------------------------------------------------
(* clean_text, split_into_paragraphs and process_pipeline. *)

\* a text has at most MaxTextLen characters
MaxTextLen == 4
\* min_paragraph_length ranges over 0..MaxMinLen
MaxMinLen == 2

\* "a" is any ordinary character, "." the period, then blank, tab and newline
TextAlphabet == {"a", ".", " ", "\t", "\n"}

\* the class [ \t]
IsHorizontal(c) == c \in {" ", "\t"}

\* line 55: re.sub(r'\n+', '\n', text)
RECURSIVE CollapseNewlines(_)
CollapseNewlines(s) ==
    IF s = <<>> THEN <<>>
    ELSE IF Head(s) = "\n" /\ Len(s) > 1 /\ s[2] = "\n" THEN CollapseNewlines(Tail(s))
    ELSE <<Head(s)>> \o CollapseNewlines(Tail(s))

\* line 56: re.sub(r'[ \t]+', ' ', text)
RECURSIVE CollapseBlanks(_)
CollapseBlanks(s) ==
    IF s = <<>> THEN <<>>
    ELSE IF IsHorizontal(Head(s))
         THEN IF Len(s) > 1 /\ IsHorizontal(s[2])
              THEN CollapseBlanks(Tail(s))
              ELSE <<" ">> \o CollapseBlanks(Tail(s))
         ELSE <<Head(s)>> \o CollapseBlanks(Tail(s))

\* line 58: re.sub(r'\n', ' ', text)
NewlinesToSpaces(s) == [k \in 1..Len(s) |-> IF s[k] = "\n" THEN " " ELSE s[k]]

\* line 59: re.sub(r'\.\s+', '.\n', text)
RECURSIVE BreakAfterPeriods(_, _)
BreakAfterPeriods(s, p) ==
    IF p > Len(s) THEN <<>>
    ELSE IF s[p] = "." /\ p < Len(s) /\ IsSpace(s[p + 1])
         THEN <<".", "\n">> \o BreakAfterPeriods(s, SkipSpaces(s, p + 1))
         ELSE <<s[p]>> \o BreakAfterPeriods(s, p + 1)

\* lines 49-61: clean_text
CleanText(t) ==
    BreakAfterPeriods(NewlinesToSpaces(CollapseBlanks(CollapseNewlines(t))), 1)

\* text.split('\n')
RECURSIVE SplitLinesFrom(_, _, _)
SplitLinesFrom(s, p, cur) ==
    IF p > Len(s) THEN <<cur>>
    ELSE IF s[p] = "\n" THEN <<cur>> \o SplitLinesFrom(s, p + 1, <<>>)
    ELSE SplitLinesFrom(s, p + 1, Append(cur, s[p]))

\* line 69: [p.strip() for p in text.split('\n') if p.strip()]
RawParagraphs(t) ==
    LET pieces == SplitLinesFrom(t, 1, <<>>)
    IN SelectSeq([k \in 1..Len(pieces) |-> Strip(pieces[k])], Truthy)

\* a plausible slip: a paragraph of exactly the minimum length is dropped
LongEnoughStrict(p, m) == Len(p) > m

\* line 72: len(p) >= min_paragraph_length
LongEnough(p, m) == Len(p) >= m

\* lines 63-77: split_into_paragraphs
SplitIntoParagraphs(t, m) ==
    LET Keep(p) == LongEnough(p, m)
    IN SelectSeq(RawParagraphs(t), Keep)

\* chunk_paragraphs on paragraphs that together are far shorter than
\* max_chunk_size=600 (line 238), as all texts of the model are: every
\* paragraph is appended to the buffer (lines 133-135) and the final flush
\* emits the one chunk (lines 158-164); no paragraphs, no chunk.
RECURSIVE JoinAll(_, _)
JoinAll(paras, buffer) ==
    IF paras = <<>> THEN buffer ELSE JoinAll(Tail(paras), JoinSpace(buffer, Head(paras)))

ChunkShortParagraphs(paras) ==
    IF paras = <<>> THEN <<>>
    ELSE <<Chunk(0, JoinAll(paras, <<>>), <<"final", Len(paras)>>)>>

\* lines 194-195: chunk['embedding'] = embeddings[i], for a list of at most one chunk
WithEmbeddings(chunkList, e) ==
    [k \in 1..Len(chunkList) |->
        [chunk_id |-> chunkList[k].chunk_id, text |-> chunkList[k].text,
         length |-> chunkList[k].length,
         source_paragraphs |-> chunkList[k].source_paragraphs, embedding |-> e]]

\* no call was made on the processor
NoResult == [op |-> "none", value |-> <<>>, steps |-> <<>>, file |-> NoFile]

TextIdle == text = <<>> /\ min_paragraph_length = 0 /\ result = NoResult

\* the processor touches neither the chunk builder's call, the store nor the programs
TextFrame ==
    UNCHANGED <<text, min_paragraph_length, chunkVars, storeVars, nstores, prog, pc,
                appVars, askVars>>

CallCleanText ==
    /\ prog = "text" /\ result = NoResult
    /\ result' = [NoResult EXCEPT !.op = "clean_text", !.value = CleanText(text)]
    /\ TextFrame

CallSplitIntoParagraphs ==
    /\ prog = "text" /\ result = NoResult
    /\ result' = [NoResult EXCEPT !.op = "split_into_paragraphs",
                                  !.value = SplitIntoParagraphs(text, min_paragraph_length)]
    /\ TextFrame

\* lines 214-253: process_pipeline on a corpus whose 'context' is `text` (the
\* empty text also when the corpus cannot be read); min_paragraph_length is
\* the default threshold of line 63; the encoder may raise
ProcessPipeline ==
    /\ prog = "text" /\ result = NoResult
    /\ IF ~Truthy(text)
       THEN \* lines 227-229
            result' = [NoResult EXCEPT !.op = "process_pipeline",
                                       !.steps = <<"load_and_extract_text">>]
       ELSE \E encodes \in BOOLEAN, e \in EmbSet :
              LET cleaned_text == CleanText(text)
                  paras == SplitIntoParagraphs(cleaned_text, min_paragraph_length)
                  chunkList == ChunkShortParagraphs(paras)
                  chunks_with_embeddings == WithEmbeddings(chunkList, e)
                  called == <<"load_and_extract_text", "clean_text", "split_into_paragraphs",
                              "chunk_paragraphs", "generate_embeddings">>
              IN IF encodes
                 THEN result' = [op |-> "process_pipeline",
                                 value |-> chunks_with_embeddings,
                                 steps |-> Append(called, "save_chunks_to_json"),
                                 file |-> chunks_with_embeddings]
                 ELSE result' = [NoResult EXCEPT !.op = "process_pipeline raised",
                                                 !.steps = called]
    /\ TextFrame

----------------------------------------------------------------------------
(* MedicalRAGGenerator.ask *)

\* ask was not called
NotAsked == [called |-> FALSE, generated |-> FALSE, context_texts |-> <<>>,
             prompt_context |-> <<>>, contexts |-> <<>>, retrieved_count |-> 0,
             searched |-> FALSE, error |-> FALSE, answer |-> "none"]

AskIdle == retriever = TRUE /\ retrieved_chunks = <<>> /\ asked = NotAsked

\* the text of a retrieved chunk has at most MaxAskTextLen characters
MaxAskTextLen == 2

\* `retrieved_chunks[:3]`
ContextLimit == 3

\* a result of search_similar_chunks (lines 173-179 of src/vector_store.py)
Retrieved(t) ==
    [chunk_id |-> Len(t), text |-> t, length |-> Len(t), similarity_score |-> 1,
     distance |-> 0]

\* what search_similar_chunks(question, top_k=4) may return to ask
RetrievedLists == SeqsUpTo({Retrieved(t) : t \in SeqsUpTo({"a"}, MaxAskTextLen)}, AskTopK)

\* a plausible slip: the texts of all retrieved chunks are used
ContextTextsAll(retrieved) == [k \in 1..Len(retrieved) |-> retrieved[k].text]

\* line 126: [chunk['text'] for chunk in retrieved_chunks[:3]]
ContextTexts(retrieved) ==
    [k \in 1..Min(ContextLimit, Len(retrieved)) |-> retrieved[k].text]

\* line 57 of build_prompt: the parts joined into the context of the prompt
PromptContext(context_chunks) == SelectSeq(context_chunks, Truthy)

\* a plausible slip: every retrieved chunk is listed in the contexts
ContextsInfoAll(retrieved) ==
    [k \in 1..Len(retrieved) |->
        [chunk_id |-> retrieved[k].chunk_id, similarity |-> retrieved[k].similarity_score]]

\* lines 133-140: contexts_info
ContextsInfo(retrieved) ==
    [k \in 1..Min(ContextLimit, Len(retrieved)) |->
        [chunk_id |-> retrieved[k].chunk_id, similarity |-> retrieved[k].similarity_score]]

\* lines 104-147: ask; with a retriever, from the list the retriever returned
Ask ==
    /\ prog = "ask" /\ ~asked.called
    /\ IF ~retriever
       THEN \* lines 109-110: the record holds the key "error" only
            asked' = [NotAsked EXCEPT !.called = TRUE, !.error = TRUE]
       ELSE IF ~Truthy(retrieved_chunks)
       THEN \* lines 118-123
            asked' = [NotAsked EXCEPT !.called = TRUE, !.searched = TRUE,
                                      !.answer = "not_found"]
       ELSE \* lines 126-147; generate_from_context builds the prompt (line 80)
            asked' = [called |-> TRUE, generated |-> TRUE,
                      context_texts |-> ContextTexts(retrieved_chunks),
                      prompt_context |-> PromptContext(ContextTexts(retrieved_chunks)),
                      contexts |-> ContextsInfo(retrieved_chunks),
                      retrieved_count |-> Len(retrieved_chunks),
                      searched |-> TRUE, error |-> FALSE, answer |-> "generated"]
    /\ UNCHANGED <<retriever, retrieved_chunks, chunkVars, textVars, storeVars, nstores,
                   prog, pc, appVars>>

----------------------------------------------------------------------------
(* The programs that drive the store.  One program runs at a time; the     *)
(* collection on the server outlives it, its store objects do not.         *)

\* a new program run has no store objects yet
NoStores == [s \in 1..MaxStores |-> FALSE]

\* st.session_state before the first script run of the app
NoSession == [rag_initialized |-> "unset", vector_store |-> 0, generator |-> 0]

\* nothing is rendered: the app is not open
NoUi == [sidebar |-> "none", main |-> "none"]

AppClosed == session = NoSession /\ ui = NoUi /\ init_attempt = "none"

\* the insert keeps the collection within the model's bound
FitsBound(file) == file = NoFile \/ Len(records) + Len(file) <= MaxRecords

\* `store.collection = Collection(name)` followed by `store.collection.load()`:
\* vector_store.py 265-267, rag_pipeline.py 36-37, app.py 66-67
AttachAndLoad(s, fault) ==
    /\ hasCollection' = [hasCollection EXCEPT ![s] = TRUE]
    /\ loaded' = IF fault THEN loaded ELSE TRUE
    /\ last' = [Call("load", s) EXCEPT !.hasColl = TRUE,
                    !.outcome = IF fault THEN "raised" ELSE "returned",
                    !.calls = <<"Collection", "load">>]
    /\ UNCHANGED <<collExists, records, nflushed>>

\* no call is in progress: the caller has taken the outcome of the last one
Idle == last.op = "none"

\* the caller takes the outcome of the call (the return value or the exception)
Return ==
    /\ ~Idle
    /\ last' = NoCall
    /\ UNCHANGED <<collExists, records, nflushed, loaded, hasCollection,
                   nstores, prog, pc, appVars, idleVars>>

StartProgram(p) ==
    /\ prog = "none"
    /\ Idle
    /\ prog' = p
    /\ hasCollection' = NoStores
    /\ UNCHANGED <<collExists, records, nflushed, loaded, last, idleVars>>

Exit == prog' = "none" /\ pc' = "exit"

\* ---- vector_store.main (src/vector_store.py:239-313)

\* line 252: the store is constructed
VsStart ==
    /\ StartProgram("vs_main")
    /\ pc' = "connect"
    /\ nstores' = 1
    /\ UNCHANGED appVars

\* lines 255-258
VsConnect ==
    /\ prog = "vs_main" /\ pc = "connect" /\ Idle
    /\ \E ok \in BOOLEAN : IF ok THEN pc' = "open" /\ UNCHANGED prog ELSE Exit
    /\ UNCHANGED <<storeVars, nstores, appVars, idleVars>>

\* lines 261-267; an exception of the backend ends the program
VsOpen ==
    /\ prog = "vs_main" /\ pc = "open" /\ Idle
    /\ IF ~collExists
       THEN \E fault \in {"none", "collection", "index"} :
               /\ CreateCollection(1, fault)
               /\ IF fault = "none" THEN pc' = "data" /\ UNCHANGED prog ELSE Exit
       ELSE \E fault \in BOOLEAN :
               /\ AttachAndLoad(1, fault)
               /\ IF fault THEN Exit ELSE pc' = "data" /\ UNCHANGED prog
    /\ UNCHANGED <<nstores, appVars, idleVars>>

\* lines 272-280
VsData ==
    /\ prog = "vs_main" /\ pc = "data" /\ Idle
    /\ IF IsEmpty
       THEN \E file \in ChunkFiles \cup {NoFile} :
               /\ FitsBound(file)
               /\ \E fault \in {"none", "insert", "flush", "load"} :
                     /\ InsertChunksFromFile(1, file, fault)
                     /\ IF last'.ret THEN pc' = "test" /\ UNCHANGED prog ELSE Exit
       ELSE /\ pc' = "test"
            /\ UNCHANGED <<storeVars, prog>>
    /\ UNCHANGED <<nstores, appVars, idleVars>>

\* line 284, test_with_sample_questions (lines 196-237): one test question
VsTestQuestion ==
    /\ prog = "vs_main" /\ pc = "test" /\ Idle
    /\ \E q \in QuerySet : SearchSimilarChunks(1, q, TestTopK)
    /\ UNCHANGED <<prog, pc, nstores, appVars, idleVars>>

\* the test ends (or the questions file is missing) and the loop of line 290 starts
VsTestDone ==
    /\ prog = "vs_main" /\ pc = "test" /\ Idle
    /\ pc' = "interactive"
    /\ UNCHANGED <<storeVars, prog, nstores, appVars, idleVars>>

\* lines 290-313: one query of the interactive loop
VsInteractive ==
    /\ prog = "vs_main" /\ pc = "interactive" /\ Idle
    /\ \E q \in QuerySet : SearchSimilarChunks(1, q, InteractiveTopK)
    /\ UNCHANGED <<prog, pc, nstores, appVars, idleVars>>

\* lines 294-296: quit
VsQuit ==
    /\ prog = "vs_main" /\ pc = "interactive" /\ Idle
    /\ Exit
    /\ UNCHANGED <<storeVars, nstores, appVars, idleVars>>

\* ---- rag_pipeline.main (src/rag_pipeline.py:17-82)

\* line 24
RagStart ==
    /\ StartProgram("rag_main")
    /\ pc' = "connect"
    /\ nstores' = 1
    /\ UNCHANGED appVars

\* lines 27-29
RagConnect ==
    /\ prog = "rag_main" /\ pc = "connect" /\ Idle
    /\ \E ok \in BOOLEAN : IF ok THEN pc' = "open" /\ UNCHANGED prog ELSE Exit
    /\ UNCHANGED <<storeVars, nstores, appVars, idleVars>>

\* lines 32-47: attach, load, construct the generator
RagOpen ==
    /\ prog = "rag_main" /\ pc = "open" /\ Idle
    /\ IF ~collExists
       THEN Exit /\ UNCHANGED storeVars
       ELSE \E fault \in BOOLEAN, generatorLoads \in BOOLEAN :
               /\ AttachAndLoad(1, fault)
               /\ IF fault \/ ~generatorLoads THEN Exit ELSE pc' = "ask" /\ UNCHANGED prog
    /\ UNCHANGED <<nstores, appVars, idleVars>>

\* lines 54-82 with generator.ask (src/generator.py:116): one question
RagAsk ==
    /\ prog = "rag_main" /\ pc = "ask" /\ Idle
    /\ \E q \in QuerySet : SearchSimilarChunks(1, q, AskTopK)
    /\ UNCHANGED <<prog, pc, nstores, appVars, idleVars>>

\* lines 58-60
RagQuit ==
    /\ prog = "rag_main" /\ pc = "ask" /\ Idle
    /\ Exit
    /\ UNCHANGED <<storeVars, nstores, appVars, idleVars>>

\* ---- the Streamlit app (src/app.py)

\* a script run on an existing session: the sidebar status of line 45 and
\* the main-area guard of lines 85-93
Render(state) ==
    [sidebar |-> "ready",
     main |-> IF state.rag_initialized = "true" THEN "enabled" ELSE "blocked"]

\* the first script run: lines 39-43, stopped at lines 85-93
AppStart ==
    /\ StartProgram("app")
    /\ pc' = "page"
    /\ nstores' = 0
    /\ session' = [rag_initialized |-> "false", vector_store |-> 0, generator |-> 0]
    /\ ui' = [sidebar |-> "uninitialised", main |-> "blocked"]
    /\ init_attempt' = "none"

\* lines 48-82: a click on the initialise/restart button
AppInit ==
    /\ prog = "app" /\ pc = "page" /\ Idle
    /\ nstores < MaxStores
    /\ nstores' = nstores + 1
    /\ LET s == nstores + 1
       IN \E connected \in BOOLEAN, fault \in BOOLEAN, generatorLoads \in BOOLEAN :
            IF ~connected \/ ~collExists
            THEN \* st.stop() at line 60 or 65: the script run ends in the sidebar
                 /\ session' = [session EXCEPT !.vector_store = s]
                 /\ ui' = [sidebar |-> "ready", main |-> "none"]
                 /\ init_attempt' = "stopped"
                 /\ UNCHANGED storeVars
            ELSE /\ AttachAndLoad(s, fault)
                 /\ IF fault \/ ~generatorLoads
                    THEN \* lines 80-82, then the guard of lines 85-93
                         /\ session' = [session EXCEPT !.vector_store = s,
                                                       !.rag_initialized = "false"]
                         /\ ui' = [sidebar |-> "ready", main |-> "blocked"]
                         /\ init_attempt' = "failed"
                    ELSE \* lines 72-78: st.rerun() renders the page anew
                         /\ session' = [rag_initialized |-> "true", vector_store |-> s,
                                        generator |-> s]
                         /\ ui' = Render([rag_initialized |-> "true"])
                         /\ init_attempt' = "ok"
    /\ UNCHANGED <<prog, pc, idleVars>>

\* any other interaction reruns the script: lines 39-45 and 85-93
AppRerun ==
    /\ prog = "app" /\ pc = "page" /\ Idle
    /\ ui' = Render(session)
    /\ UNCHANGED <<storeVars, prog, pc, nstores, session, init_attempt, idleVars>>

\* lines 120-146 with generator.ask (src/generator.py:116): a submitted question
AppAsk ==
    /\ prog = "app" /\ pc = "page" /\ Idle
    /\ session.rag_initialized = "true"
    /\ ui.main = "enabled"
    /\ \E q \in QuerySet : SearchSimilarChunks(session.generator, q, AskTopK)
    /\ UNCHANGED <<prog, pc, nstores, appVars, idleVars>>

\* the app is shut down; its session state is gone
AppStop ==
    /\ prog = "app" /\ pc = "page" /\ Idle
    /\ Exit
    /\ session' = NoSession
    /\ ui' = NoUi
    /\ init_attempt' = "none"
    /\ UNCHANGED <<storeVars, nstores, idleVars>>

\* chunk_paragraphs is not running
ChunkIdle ==
    /\ paragraphs = <<>> /\ max_chunk_size = 1 /\ overlap = 0 /\ i = 0
    /\ chunks = <<>> /\ sites = <<>> /\ current_chunk = <<>>
    /\ current_length = 0 /\ chunk_id = 0 /\ cpc = "idle"

\* a fresh server: no collection
InitServer ==
    /\ collExists = FALSE
    /\ records = <<>>
    /\ nflushed = 0
    /\ loaded = FALSE
    /\ hasCollection = NoStores
    /\ last = NoCall

InitDrivers ==
    /\ ChunkIdle /\ TextIdle /\ AskIdle
    /\ InitServer
    /\ prog = "none" /\ pc = "exit" /\ nstores = 0
    /\ AppClosed

NextDrivers ==
    \/ VsStart \/ VsConnect \/ VsOpen \/ VsData \/ VsTestQuestion \/ VsTestDone
    \/ VsInteractive \/ VsQuit
    \/ RagStart \/ RagConnect \/ RagOpen \/ RagAsk \/ RagQuit
    \/ AppStart \/ AppInit \/ AppRerun \/ AppAsk \/ AppStop
    \/ Return

SpecDrivers == InitDrivers /\ [][NextDrivers]_vars

----------------------------------------------------------------------------
(* A client that calls the methods of its store object directly, in any    *)
(* order, and may replace the object by a newly constructed one.           *)

ApiFrame == UNCHANGED <<prog, pc, nstores, appVars, idleVars>>

ApiReady == prog = "api" /\ Idle

\* MedicalVectorStore(...): the client goes on with a new store object
ApiNewStore ==
    /\ ApiReady
    /\ hasCollection[1]
    /\ hasCollection' = NoStores
    /\ UNCHANGED <<collExists, records, nflushed, loaded, last>>
    /\ ApiFrame

ApiCreateCollection ==
    /\ ApiReady
    /\ \E fault \in {"none", "collection", "index"} : CreateCollection(1, fault)
    /\ ApiFrame

ApiAttachCollection ==
    /\ ApiReady
    /\ AttachCollection(1)
    /\ ApiFrame

ApiLoadCollection ==
    /\ ApiReady
    /\ \E fault \in BOOLEAN : LoadCollection(1, fault)
    /\ ApiFrame

ApiInsertChunksFromFile ==
    /\ ApiReady
    /\ \E file \in ChunkFiles \cup {NoFile} :
          /\ FitsBound(file)
          /\ \E fault \in {"none", "insert", "flush", "load"} :
                InsertChunksFromFile(1, file, fault)
    /\ ApiFrame

ApiSearchSimilarChunks ==
    /\ ApiReady
    /\ \E q \in QuerySet, top_k \in (0 - 1)..MaxTopK : SearchSimilarChunks(1, q, top_k)
    /\ ApiFrame

InitStore ==
    /\ ChunkIdle /\ TextIdle /\ AskIdle
    /\ InitServer
    /\ prog = "api" /\ pc = "exit" /\ nstores = 1
    /\ AppClosed

NextStore ==
    \/ ApiNewStore \/ ApiCreateCollection \/ ApiAttachCollection \/ ApiLoadCollection
    \/ ApiInsertChunksFromFile \/ ApiSearchSimilarChunks
    \/ Return

SpecStore == InitStore /\ [][NextStore]_vars

----------------------------------------------------------------------------
(* One call of chunk_paragraphs on every input list. *)

\* lines 87-90: a call of chunk_paragraphs
InitChunk ==
    /\ paragraphs \in ParaLists(MaxTotalLen)
    /\ max_chunk_size \in 1..MaxSize
    /\ overlap \in 0..MaxOverlap
    /\ i = 0
    /\ chunks = <<>>
    /\ sites = <<>>
    /\ current_chunk = <<>>
    /\ current_length = 0
    /\ chunk_id = 0
    /\ cpc = "loop"
    /\ TextIdle /\ AskIdle
    /\ InitServer
    /\ prog = "chunk" /\ pc = "exit" /\ nstores = 0
    /\ AppClosed

NextChunk == ChunkLongParagraph \/ ChunkAppend \/ ChunkOverflow \/ ChunkFinal

SpecChunk == InitChunk /\ [][NextChunk]_vars

----------------------------------------------------------------------------
(* One call on the text processor, on every text. *)

InitText ==
    /\ text \in SeqsUpTo(TextAlphabet, MaxTextLen)
    /\ min_paragraph_length \in 0..MaxMinLen
    /\ result = NoResult
    /\ ChunkIdle /\ AskIdle
    /\ InitServer /\ AppClosed
    /\ prog = "text" /\ pc = "exit" /\ nstores = 0

NextText == CallCleanText \/ CallSplitIntoParagraphs \/ ProcessPipeline

SpecText == InitText /\ [][NextText]_vars

----------------------------------------------------------------------------
(* One call of ask, on every list the retriever may return. *)

InitAsk ==
    /\ retriever \in BOOLEAN
    /\ retrieved_chunks \in (IF retriever THEN RetrievedLists ELSE {<<>>})
    /\ asked = NotAsked
    /\ ChunkIdle /\ TextIdle
    /\ InitServer /\ AppClosed
    /\ prog = "ask" /\ pc = "exit" /\ nstores = 0

NextAsk == Ask

SpecAsk == InitAsk /\ [][NextAsk]_vars

----------------------------------------------------------------------------
(* Claims about chunk_paragraphs, checked under SpecChunk. *)

\* the sentences of the input paragraphs that are longer than max_chunk_size
LongSentences ==
    UNION {{Strip(SplitSentences(paragraphs[k])[j]) : j \in 1..Len(SplitSentences(paragraphs[k]))}
           : k \in 1..Len(paragraphs)}

IsSingleLongSentence(t) == t \in LongSentences /\ Len(t) > max_chunk_size

\* C1: every chunk has a non-empty text, and its length is <= max_chunk_size
\* unless the chunk is one single sentence that is itself longer than
\* max_chunk_size.
C1_ChunkWithinMaxSize ==
    \A k \in 1..Len(chunks) :
        /\ chunks[k].text # <<>>
        /\ Len(chunks[k].text) <= max_chunk_size \/ IsSingleLongSentence(chunks[k].text)

\* C2: with overlap > 0, when chunk k was flushed because the next paragraph
\* would overflow the buffer, the text of chunk k+1 starts with the last
\* min(overlap, len(text of chunk k)) characters of the text of chunk k.
C2_OverlapPrefix ==
    \A k \in 1..(Len(chunks) - 1) :
        (overlap > 0 /\ sites[k] = "overflow")
            => StartsWith(chunks[k + 1].text, LastChars(chunks[k].text, overlap))

\* C3: the chunk_id values of the list are exactly 0, 1, ..., n-1 in list
\* order, whichever flush site appended the chunk.
C3_ChunkIdsContiguous ==
    \A k \in 1..Len(chunks) : chunks[k].chunk_id = k - 1

\* C3 witness: a finished call whose chunks came from all four flush sites.
C3_Witness ==
    /\ cpc = "done"
    /\ {sites[k] : k \in 1..Len(sites)} = {"long", "sentence", "overflow", "final"}

----------------------------------------------------------------------------
(* Claims about MedicalVectorStore.  `last` holds the call just made, the  *)
(* state it found (hasColl, nRecords, nEntities, loaded) and what it did.  *)

Searched == last.op = "search"

\* the call reached the backend's search
BackendSearched == Searched /\ last.calls = <<"search">>

\* a search on a loaded, non-empty collection
SearchedReadyIndex == Searched /\ last.hasColl /\ last.loaded /\ last.nEntities > 0

\* C4: search_similar_chunks returns an empty list, without raising, whenever
\* the index holds zero records or the collection has not been loaded (also
\* when it holds records but was never loaded).
C4_EmptyWhenEmptyOrUnloaded ==
    (Searched /\ last.top_k >= 1 /\ (last.nRecords = 0 \/ ~last.loaded))
        => (last.outcome = "returned" /\ last.result = <<>>)

\* C5: driven by vector_store.main, rag_pipeline.main and the app, the
\* backend search is executed only when at least one record has been
\* inserted and the collection has been loaded.
C5_SearchOnlyWhenReady ==
    BackendSearched => (last.nRecords > 0 /\ last.loaded)

\* C5 witness: the app's generator made the backend search a loaded,
\* non-empty collection.
C5_Witness ==
    /\ prog = "app"
    /\ BackendSearched
    /\ last.outcome = "returned"
    /\ last.result # <<>>

\* C6: if any record of the chunk file is invalid, insert_chunks_from_file
\* inserts no record, does not flush or load, leaves the collection as it
\* was and returns False.
C6_InvalidBatchAborts ==
    (last.op = "insert" /\ last.invalid)
        => /\ last.outcome = "returned"
           /\ last.ret = FALSE
           /\ "flush" \notin Range(last.calls)
           /\ "load" \notin Range(last.calls)
           /\ Len(records) = last.nRecords
           /\ nflushed = last.nEntities
           /\ loaded = last.loaded

\* C6 witness: a file with an invalid record was offered to a store whose
\* collection already held records.
C6_Witness ==
    /\ last.op = "insert"
    /\ last.invalid
    /\ last.hasColl
    /\ last.nRecords > 0

\* C7: on a loaded non-empty index and with top_k >= 1 the search returns at
\* most top_k results, and exactly min(top_k, number of records) when the
\* backend searched every record.
C7_AtMostTopK ==
    (SearchedReadyIndex /\ last.top_k >= 1)
        => /\ last.outcome = "returned"
           /\ Len(last.result) <= last.top_k
           /\ last.exact => Len(last.result) = Min(last.top_k, last.nRecords)

\* C7 witness: an exact search with top_k below the number of records
\* returned exactly top_k results.
C7_Witness ==
    /\ SearchedReadyIndex
    /\ last.exact
    /\ last.top_k >= 1
    /\ last.top_k < last.nRecords
    /\ Len(last.result) = last.top_k

\* C8: the returned list is ordered by descending similarity_score, and two
\* results of equal similarity_score appear in ascending chunk_id order.
C8_OrderedWithTieBreak ==
    Searched =>
        \A a, b \in 1..Len(last.result) :
            a < b =>
                \/ last.result[a].similarity_score > last.result[b].similarity_score
                \/ /\ last.result[a].similarity_score = last.result[b].similarity_score
                   /\ last.result[a].chunk_id <= last.result[b].chunk_id

\* C9: a search on a store whose collection was never created or attached
\* is raised to the caller; the empty list is never the answer to an error.
C9_UninitialisedRaises ==
    (Searched /\ ~last.hasColl) => last.outcome = "raised"

\* C10: with top_k <= 0 on a loaded non-empty index the search fails with an
\* error raised to the caller: it returns no list and passes top_k on as it is.
C10_InvalidTopKRaises ==
    (SearchedReadyIndex /\ last.top_k <= 0)
        => /\ last.outcome = "raised"
           /\ last.result = <<>>
           /\ last.limit = last.top_k

\* C10 witness: a search with top_k = 0 on a loaded non-empty index.
C10_Witness ==
    /\ SearchedReadyIndex
    /\ last.top_k = 0
    /\ last.calls = <<"search">>

\* C11: after any sequence of store operations on the collection, no two
\* records of the index share a chunk_id.
C11_UniqueChunkIds ==
    \A a, b \in 1..Len(records) : a # b => records[a].chunk_id # records[b].chunk_id

\* C12: create_collection fails (raises) when the collection already exists
\* on the server.
C12_CreateOnExistingFails ==
    (last.op = "create" /\ last.exists) => last.outcome = "raised"

\* C13: when a paragraph longer than max_chunk_size contains a sentence that
\* is itself longer than max_chunk_size, the returned list has a chunk whose
\* text is exactly that sentence (not truncated, not merged with another
\* sentence or paragraph, not prefixed with overlap text).
C13_LongSentenceOwnChunk ==
    cpc = "done" =>
        \A p \in 1..Len(paragraphs) :
            Len(paragraphs[p]) > max_chunk_size =>
                \A j \in 1..Len(SplitSentences(paragraphs[p])) :
                    Len(SplitSentences(paragraphs[p])[j]) > max_chunk_size =>
                        \E k \in 1..Len(chunks) :
                            chunks[k].text = SplitSentences(paragraphs[p])[j]

\* C13 witness: a finished call with overlap > 0 in which an over-long
\* sentence follows another sentence of its paragraph and is followed by
\* another paragraph, and is a chunk of its own.
C13_Witness ==
    /\ cpc = "done"
    /\ overlap > 0
    /\ \E p \in 1..(Len(paragraphs) - 1) :
          LET sentences == SplitSentences(paragraphs[p])
          IN /\ Len(sentences) > 1
             /\ Len(sentences[Len(sentences)]) > max_chunk_size
             /\ \E k \in 1..(Len(chunks) - 1) : chunks[k].text = sentences[Len(sentences)]

\* the text "A." repeated, without whitespace
IsRepeatedA(t) ==
    /\ Len(t) % 2 = 0
    /\ \A k \in 1..Len(t) : t[k] = IF k % 2 = 1 THEN "a" ELSE "."

\* C14: for a single paragraph that repeats "A." (no whitespace) up to twice
\* max_chunk_size characters, chunk_paragraphs emits at least 2 chunks, each of
\* length <= max_chunk_size (the scenario 1000 characters, max_chunk_size=500
\* at the scale of the model).
C14_RepeatedSentenceSplit ==
    (/\ cpc = "done"
     /\ Len(paragraphs) = 1
     /\ IsRepeatedA(paragraphs[1])
     /\ Len(paragraphs[1]) = 2 * max_chunk_size
     /\ overlap > 0 /\ overlap < max_chunk_size)
        => /\ Len(chunks) >= 2
           /\ \A k \in 1..Len(chunks) : chunks[k].length <= max_chunk_size

\* the app presents the system as ready
PresentedReady ==
    /\ prog = "app"
    /\ \/ ui.sidebar = "ready"
       \/ ui.main = "enabled" /\ session.rag_initialized = "true"

\* C18: the app presents the system as ready only if the most recent
\* initialisation attempt completed the connection, the collection load and
\* the generator load, and the generator's retriever is the vector store held
\* in session state.
C18_ReadyOnlyWhenInitialised ==
    PresentedReady => (init_attempt = "ok" /\ session.generator = session.vector_store)

\* C15 (index build): building the index from the empty chunk list, on a
\* store with a collection and a backend that does not fail, is a no-op that
\* reports no failure: insert_chunks_from_file returns True and stores nothing.
C15_EmptyBuildNoFailure ==
    (last.op = "insert" /\ last.nChunks = 0 /\ last.hasColl /\ ~last.faulted)
        => (last.ret /\ Len(records) = last.nRecords)

----------------------------------------------------------------------------
(* Further claims about chunk_paragraphs, checked under SpecChunk. *)

\* C21: every chunk has a length field equal to the character count of its
\* text field.
C21_LengthIsTextLength ==
    \A k \in 1..Len(chunks) : chunks[k].length = Len(chunks[k].text)

\* C21 witness: a finished call whose last chunk was flushed from a buffer
\* that began with whitespace (an overlap seed), so that stripping shortened it.
C21_Witness ==
    /\ cpc = "done"
    /\ Truthy(current_chunk)
    /\ Strip(current_chunk) # current_chunk
    /\ chunks[Len(chunks)].text = Strip(current_chunk)
    /\ chunks[Len(chunks)].length < Len(current_chunk)

\* t holds piece as a contiguous substring
Contains(t, piece) ==
    \E a \in 0..(Len(t) - Len(piece)) : SubSeq(t, a + 1, a + Len(piece)) = piece

\* the paragraphs of length <= max_chunk_size and the sentences of the longer
\* ones, in input order
RECURSIVE InputPieces(_)
InputPieces(k) ==
    IF k > Len(paragraphs) THEN <<>>
    ELSE (IF Len(paragraphs[k]) <= max_chunk_size
          THEN <<paragraphs[k]>> ELSE SplitSentences(paragraphs[k]))
         \o InputPieces(k + 1)

\* the pieces from the j-th on can be found, in order, in the chunks from the
\* c-th on (each piece in the first chunk that holds it)
RECURSIVE FoundInOrder(_, _, _)
FoundInOrder(pieces, j, c) ==
    IF j > Len(pieces) THEN TRUE
    ELSE LET holders == {x \in c..Len(chunks) : Contains(chunks[x].text, pieces[j])}
         IN /\ holders # {}
            /\ FoundInOrder(pieces, j + 1,
                            CHOOSE x \in holders : \A y \in holders : x <= y)

\* C22: the returned chunks preserve the input without loss and in order:
\* every paragraph of length <= max_chunk_size and every sentence of a longer
\* paragraph is a contiguous substring of some chunk, and the chunks holding
\* them can be chosen in input order.
C22_OrderPreservedNoLoss ==
    cpc = "done" => FoundInOrder(InputPieces(1), 1, 1)

\* C22 witness: a finished call with overlap on a short paragraph and a long
\* paragraph of several sentences that returned at least three chunks.
C22_Witness ==
    /\ cpc = "done"
    /\ overlap > 0
    /\ Len(chunks) >= 3
    /\ \E k \in 1..Len(paragraphs) : Len(paragraphs[k]) <= max_chunk_size
    /\ \E k \in 1..Len(paragraphs) :
          Len(paragraphs[k]) > max_chunk_size /\ Len(SplitSentences(paragraphs[k])) > 1
    /\ FoundInOrder(InputPieces(1), 1, 1)

----------------------------------------------------------------------------
(* Further claims about MedicalVectorStore, checked under SpecStore. *)

\* insert_chunks_from_file was called and the call is over
Inserted == last.op = "insert"

\* C23: insert_chunks_from_file never raises; when it returns True the backend
\* was called with insert, then flush, then load, each exactly once, no step
\* failed and the collection is loaded; when a step fails it returns False.
C23_InsertFlushLoadOrder ==
    Inserted =>
        /\ last.outcome = "returned"
        /\ last.ret => /\ last.calls = <<"insert", "flush", "load">>
                       /\ ~last.faulted
                       /\ loaded
        /\ last.faulted => ~last.ret

\* C23 witness: a call that returned True after the three backend calls on a
\* collection that was not loaded before, leaving it loaded.
C23_Witness ==
    /\ Inserted /\ last.ret /\ ~last.loaded /\ loaded
    /\ last.calls = <<"insert", "flush", "load">>
    /\ Len(records) > 0 /\ nflushed = Len(records)

\* C23 witness of the failing side: a backend step of the call failed and the
\* call returned False
C23_FaultReturnsFalse ==
    Inserted /\ last.faulted /\ ~last.ret /\ last.outcome = "returned"

\* C24: search_similar_chunks returns one result per hit of the backend, in
\* the backend's hit order, with chunk_id, text and length copied from the
\* stored record of the hit, similarity_score equal to the hit's raw score and
\* distance equal to 1 - similarity_score.
C24_OneResultPerHit ==
    (BackendSearched /\ last.outcome = "returned") =>
        /\ Len(last.result) = Len(last.hits)
        /\ \A a \in 1..Len(last.hits) :
              /\ \E x \in 1..Len(records) : last.hits[a].entity = records[x]
              /\ last.result[a].chunk_id = last.hits[a].entity.chunk_id
              /\ last.result[a].text = last.hits[a].entity.chunk_text
              /\ last.result[a].length = last.hits[a].entity.text_length
              /\ last.result[a].similarity_score = last.hits[a].score
              /\ last.result[a].distance = 1 - last.result[a].similarity_score

\* C24 witness: a search that returned two hits of different stored records
\* with different scores.
C24_Witness ==
    /\ BackendSearched /\ last.outcome = "returned"
    /\ Len(last.hits) = 2 /\ Len(last.result) = 2
    /\ last.hits[1].entity.chunk_id # last.hits[2].entity.chunk_id
    /\ last.hits[1].score > last.hits[2].score
    /\ last.result[1].similarity_score > last.result[2].similarity_score

----------------------------------------------------------------------------
(* Claims about clean_text, split_into_paragraphs and process_pipeline,    *)
(* checked under SpecText.                                                  *)

\* the positions around the newline-separated pieces of t
Boundaries(t) == {0} \cup {k \in 1..Len(t) : t[k] = "\n"} \cup {Len(t) + 1}

NthBoundary(t, j) ==
    CHOOSE b \in Boundaries(t) : Cardinality({x \in Boundaries(t) : x < b}) = j - 1

\* the newline-separated pieces of t, trimmed, in their order
TrimmedPieces(t) ==
    [j \in 1..(Cardinality(Boundaries(t)) - 1) |->
        Strip(SubSeq(t, NthBoundary(t, j) + 1, NthBoundary(t, j + 1) - 1))]

\* C16 as stated: split_into_paragraphs returns exactly the trimmed
\* newline-separated pieces whose trimmed length is >= min_paragraph_length,
\* in their original order.
C16_AllLongPieces ==
    result.op = "split_into_paragraphs" =>
        LET Kept(p) == Len(p) >= min_paragraph_length
        IN result.value = SelectSeq(TrimmedPieces(text), Kept)

\* C16 amended: split_into_paragraphs returns exactly the non-empty trimmed
\* newline-separated pieces whose trimmed length is >= min_paragraph_length,
\* in their original order.
C16_NonEmptyLongPieces ==
    result.op = "split_into_paragraphs" =>
        LET Kept(p) == Len(p) >= min_paragraph_length /\ Len(p) > 0
        IN result.value = SelectSeq(TrimmedPieces(text), Kept)

\* C16 witness: a call that trimmed a piece, kept a piece of exactly the
\* minimum length and dropped a shorter non-empty one.
C16_Witness ==
    /\ result.op = "split_into_paragraphs"
    /\ min_paragraph_length > 1
    /\ \E k \in 1..Len(result.value) : Len(result.value[k]) = min_paragraph_length
    /\ \E j \in 1..Len(TrimmedPieces(text)) :
          /\ Len(TrimmedPieces(text)[j]) > 0
          /\ Len(TrimmedPieces(text)[j]) < min_paragraph_length

\* C17: the output of clean_text contains no run of two or more consecutive
\* horizontal whitespace characters (spaces, tabs).
C17_NoBlankRuns ==
    result.op = "clean_text" =>
        \A k \in 1..(Len(result.value) - 1) :
            ~(IsHorizontal(result.value[k]) /\ IsHorizontal(result.value[k + 1]))

\* C20: when split_into_paragraphs returns the empty list for a non-empty
\* corpus, process_pipeline stops: it calls neither chunk_paragraphs nor
\* generate_embeddings and does not write the chunk file.
C20_EmptySplitStopsPipeline ==
    (/\ result.op \in {"process_pipeline", "process_pipeline raised"}
     /\ Truthy(text)
     /\ SplitIntoParagraphs(CleanText(text), min_paragraph_length) = <<>>)
        => /\ \A k \in 1..Len(result.steps) :
                 result.steps[k] \notin {"chunk_paragraphs", "generate_embeddings",
                                         "save_chunks_to_json"}
           /\ result.file = NoFile

----------------------------------------------------------------------------
(* Claims about MedicalRAGGenerator.ask, checked under SpecAsk. *)

\* the ranks, among the first three, of the retrieved chunks with a non-empty text
NonEmptyRanks ==
    {k \in 1..Len(retrieved_chunks) : k <= 3 /\ retrieved_chunks[k].text # <<>>}

\* C19: the context ask hands to generation is exactly the texts of the
\* first at most 3 retrieved chunks in rank order, and the prompt context
\* holds exactly the non-empty ones of them, in rank order.
C19_ContextFromTopThree ==
    asked.generated =>
        /\ Len(asked.context_texts) = IF Len(retrieved_chunks) < 3
                                      THEN Len(retrieved_chunks) ELSE 3
        /\ \A k \in 1..Len(asked.context_texts) :
              asked.context_texts[k] = retrieved_chunks[k].text
        /\ Len(asked.prompt_context) = Cardinality(NonEmptyRanks)
        /\ \A j \in 1..Len(asked.prompt_context) :
              /\ asked.prompt_context[j] # <<>>
              /\ \E k \in NonEmptyRanks :
                    /\ Cardinality({x \in NonEmptyRanks : x < k}) = j - 1
                    /\ asked.prompt_context[j] = retrieved_chunks[k].text

\* C19 witness: ask generated from four retrieved chunks, of which the
\* first three hold an empty text and two different non-empty texts.
C19_Witness ==
    /\ asked.generated
    /\ asked.retrieved_count = 4
    /\ retrieved_chunks[4].text # <<>>
    /\ \E k \in 1..3 : retrieved_chunks[k].text = <<>>
    /\ Len(asked.prompt_context) = 2
    /\ asked.prompt_context[1] # asked.prompt_context[2]

\* C25: ask never invokes text generation when retrieval yields nothing:
\* without a retriever it returns an error record, and with an empty retrieval
\* result it returns the fixed "no material found" answer with an empty
\* contexts list; in all other cases the contexts list has at most 3 entries,
\* in retrieval order, and retrieved_count is the number of retrieved chunks.
C25_NoGenerationWithoutRetrieval ==
    asked.called =>
        /\ ~retriever => asked.error /\ ~asked.searched /\ ~asked.generated
        /\ (retriever /\ retrieved_chunks = <<>>) =>
              /\ ~asked.generated /\ ~asked.error
              /\ asked.answer = "not_found"
              /\ asked.contexts = <<>>
        /\ (retriever /\ retrieved_chunks # <<>>) =>
              /\ ~asked.error
              /\ Len(asked.contexts) <= 3
              /\ Len(asked.contexts) <= Len(retrieved_chunks)
              /\ \A k \in 1..Len(asked.contexts) :
                    asked.contexts[k].chunk_id = retrieved_chunks[k].chunk_id
              /\ asked.retrieved_count = Len(retrieved_chunks)

\* C25 witness: ask returned three contexts, of different chunks, from four
\* retrieved chunks.
C25_Witness ==
    /\ asked.called /\ retriever /\ asked.generated
    /\ Len(retrieved_chunks) = 4 /\ asked.retrieved_count = 4
    /\ Len(asked.contexts) = 3
    /\ asked.contexts[1].chunk_id # asked.contexts[2].chunk_id
    /\ asked.contexts[2].chunk_id # asked.contexts[3].chunk_id

\* C25 witness of the error side: ask was called on a generator without a
\* retriever
C25_NoRetrieverError ==
    asked.called /\ ~retriever /\ asked.error /\ ~asked.generated

\* C25 witness of the empty side: the retriever returned nothing
C25_EmptyRetrieval ==
    asked.called /\ retriever /\ asked.searched /\ retrieved_chunks = <<>>
        /\ asked.answer = "not_found"

====
